---- MODULE Spec2Model ----
(***************************************************************************)
(* A model of tools/normalize_bib_abnt.py: the splitter, the parser, the   *)
(* field normalizer, the field orderer, the deduplicator and the           *)
(* serializer, and the run of main over one document.                      *)
(*                                                                         *)
(* Text is modelled character by character.  A Python str is a sequence of *)
(* one-character strings, <<"t","i","t","l","e">>; a document is the       *)
(* sequence of its lines (what str.splitlines returns).  A letter outside  *)
(* ASCII is one element with a spelled-out name: "iacute", "atilde",       *)
(* "ccedil", "otilde", "ordm" and their capitals "Iacute", "Atilde",       *)
(* "Ccedil", "Otilde".  A regular expression of the source is an operator  *)
(* that returns where the match ends, written out for that expression.     *)
(***************************************************************************)
EXTENDS Integers, Sequences, FiniteSets, TLC

VARIABLES
    text,                \* main: the lines of the document being normalized
    pc,                  \* main: the position of the run
    pos,                 \* split_entries: index of the next line
    in_entry,            \* split_entries: in_entry
    current,             \* split_entries: current
    depth,               \* split_entries: depth
    entries,             \* split_entries: entries (each block a sequence of lines)
    start,               \* history: index of the line that began `current`
    spans,               \* history: per block, the first and last line it took
    parsed,              \* main: parsed
    entries_map,         \* main: entries_map (the RecordIndex)
    idx,                 \* main: index of the next element of a for loop
    normalized_entries,  \* main: normalized_entries (each a sequence of lines)
    seen,                \* main: seen
    dropped,             \* main: dropped
    changed,             \* main: changed
    output_text,         \* main: output_text, as its lines
    run,                 \* 1 for the run on the input, 2 for the run on its output
    log,                 \* history: one record per block handled
    args,                \* the arguments of a function applied on its own
    result               \* its result

vars == <<text, pc, pos, in_entry, current, depth, entries, start, spans, parsed,
          entries_map, idx, normalized_entries, seen, dropped, changed, output_text,
          run, log, args, result>>

splitVars == <<pos, in_entry, current, depth, entries, start, spans>>
mainVars == <<parsed, entries_map, idx, normalized_entries, seen, dropped, changed, output_text>>

(***************************************************************************)
(* Characters and the str methods the source uses.                         *)
(***************************************************************************)
\* str.isspace / \s, for the characters a line can hold
Space == {" ", "\t"}

UpperSeq == <<"A","B","C","D","E","F","G","H","I","J","K","L","M","N","O","P","Q",
              "R","S","T","U","V","W","X","Y","Z","Iacute","Atilde","Ccedil","Otilde">>
LowerSeq == <<"a","b","c","d","e","f","g","h","i","j","k","l","m","n","o","p","q",
              "r","s","t","u","v","w","x","y","z","iacute","atilde","ccedil","otilde">>

\* [A-Za-z]
Letter == {UpperSeq[i] : i \in 1..26} \cup {LowerSeq[i] : i \in 1..26}
\* [0-9]
Digit == {"0","1","2","3","4","5","6","7","8","9"}
\* \w
WordChar == {UpperSeq[i] : i \in 1..Len(UpperSeq)} \cup {LowerSeq[i] : i \in 1..Len(LowerSeq)}
            \cup Digit \cup {"_", "ordm"}

\* the lower case of each capital, and the capital of each lower-case letter
LowerOf == [c \in {UpperSeq[i] : i \in 1..Len(UpperSeq)} |->
               LowerSeq[CHOOSE i \in 1..Len(UpperSeq) : UpperSeq[i] = c]]
UpperOf == [c \in {LowerSeq[i] : i \in 1..Len(LowerSeq)} |->
               UpperSeq[CHOOSE i \in 1..Len(LowerSeq) : LowerSeq[i] = c]]

LowerChar(c) == IF c \in DOMAIN LowerOf THEN LowerOf[c] ELSE c

UpperChar(c) == IF c \in DOMAIN UpperOf THEN UpperOf[c] ELSE c

\* str.lower
lower(s) == [i \in 1..Len(s) |-> LowerChar(s[i])]
\* str.upper
upper(s) == [i \in 1..Len(s) |-> UpperChar(s[i])]

\* s[a-1:b] of Python, 1-based and inclusive: out-of-range ends are clamped
Slice(s, a, b) ==
    LET lo == IF a < 1 THEN 1 ELSE a
        hi == IF b > Len(s) THEN Len(s) ELSE b
    IN IF lo > hi THEN <<>> ELSE SubSeq(s, lo, hi)

\* min and max of a non-empty set of integers
Min(S) == CHOOSE m \in S : \A o \in S : m <= o
Max(S) == CHOOSE m \in S : \A o \in S : o <= m

\* the first index at or after i whose character is not in set, Len(s)+1 if none
SkipSet(s, i, set) ==
    LET First(found) == IF found = {} THEN Len(s) + 1 ELSE Min(found)
    IN First({j \in i..Len(s) : s[j] \notin set})

\* the first index at or after i whose character is in set, Len(s)+1 if none
FindSet(s, i, set) ==
    LET First(found) == IF found = {} THEN Len(s) + 1 ELSE Min(found)
    IN First({j \in i..Len(s) : s[j] \in set})

\* the last index whose character is not in set, 0 if none
LastNot(s, set) ==
    LET Last(found) == IF found = {} THEN 0 ELSE Max(found)
    IN Last({j \in 1..Len(s) : s[j] \notin set})

\* str.lstrip(chars), str.rstrip(chars), str.strip(chars)
lstripc(s, set) == Slice(s, SkipSet(s, 1, set), Len(s))
rstripc(s, set) == Slice(s, 1, LastNot(s, set))
stripc(s, set) == rstripc(lstripc(s, set), set)
\* str.lstrip(), str.rstrip(), str.strip()
lstrip(s) == lstripc(s, Space)
rstrip(s) == rstripc(s, Space)
strip(s) == stripc(s, Space)

\* whether the literal p stands in s at index i
MatchAt(s, i, p) == i >= 1 /\ i + Len(p) - 1 <= Len(s) /\ \A k \in 1..Len(p) : s[i + k - 1] = p[k]
\* str.startswith, str.endswith
startswith(s, p) == MatchAt(s, 1, p)
endswith(s, p) == Len(p) <= Len(s) /\ MatchAt(s, Len(s) - Len(p) + 1, p)

\* str.find from index i, 1-based; 0 when p does not occur
FindFrom(s, i, p) ==
    LET First(found) == IF found = {} THEN 0 ELSE Min(found)
    IN First({j \in i..Len(s) : MatchAt(s, j, p)})
\* the `in` operator on two strings
contains(s, p) == \E j \in 1..Len(s) : MatchAt(s, j, p)

\* str.count of one character
count(s, c) == Cardinality({i \in 1..Len(s) : s[i] = c})

\* str.replace(old, new), old not empty
RECURSIVE replace(_, _, _)
replace(s, old, new) ==
    LET At(i) == IF i = 0 THEN s
                 ELSE Slice(s, 1, i - 1) \o new \o replace(Slice(s, i + Len(old), Len(s)), old, new)
    IN At(FindFrom(s, 1, old))

\* str.split(): the runs of non-space characters
RECURSIVE split(_)
split(s) ==
    LET Word(b, e) == <<Slice(s, b, e - 1)>> \o split(Slice(s, e, Len(s)))
        From(b) == IF b > Len(s) THEN <<>> ELSE Word(b, FindSet(s, b, Space))
    IN From(SkipSet(s, 1, Space))

\* sep.join(parts)
RECURSIVE join(_, _)
join(parts, sep) ==
    IF parts = <<>> THEN <<>>
    ELSE IF Len(parts) = 1 THEN parts[1]
    ELSE parts[1] \o sep \o join(Tail(parts), sep)

\* re.search: the first index at which matcher End(s, i) matches (End returns
\* the index after the match, 0 for no match); 0 when it matches nowhere
Search(End(_, _), s, from) ==
    LET First(found) == IF found = {} THEN 0 ELSE Min(found)
    IN First({j \in from..Len(s) : End(s, j) # 0})

\* \b at index i of s: between s[i-1] and s[i] exactly one is a \w character
WordBoundary(s, i) ==
    LET before == i - 1 >= 1 /\ i - 1 <= Len(s) /\ s[i-1] \in WordChar
        after == i >= 1 /\ i <= Len(s) /\ s[i] \in WordChar
    IN before # after

(***************************************************************************)
(* Splitter, Parser, Serializer.                                           *)
(***************************************************************************)
\* "\n".join(current).strip(): the leading whitespace of the first line goes,
\* the trailing lines of whitespace go, and the trailing whitespace of the
\* last line left (current[0] holds an "@", so one line always stays)
StripBlock(lines) ==
    LET last == CHOOSE j \in 1..Len(lines) :
                    /\ strip(lines[j]) # <<>>
                    /\ \A k \in (j+1)..Len(lines) : strip(lines[k]) = <<>>
    IN [j \in 1..last |->
            IF j = 1 /\ j = last THEN strip(lines[j])
            ELSE IF j = 1 THEN lstrip(lines[j])
            ELSE IF j = last THEN rstrip(lines[j])
            ELSE lines[j]]

\* line.count("{") - line.count("}")
BraceDelta(line) == count(line, "{") - count(line, "}")

\* line.lstrip().startswith("@")
IsEntryStart(line) == startswith(lstrip(line), <<"@">>)

\* ENTRY_START_RE.match(line): ^\s*@([a-zA-Z]+)\s*\{\s*([^,\s]+)\s*,\s*$
\* Every repetition is followed by a character outside its class, so the
\* match is the one where each run is maximal.
ENTRY_START_RE(line) ==
    LET n == Len(line)
        Key(t1, t2, br, k1, k2, cm) ==
            IF /\ t1 - 1 <= n /\ line[t1 - 1] = "@"
               /\ t2 > t1
               /\ br <= n /\ line[br] = "{"
               /\ k2 > k1
               /\ cm <= n /\ line[cm] = ","
               /\ SkipSet(line, cm + 1, Space) = n + 1
            THEN [ok |-> TRUE, type |-> Slice(line, t1, t2 - 1), key |-> Slice(line, k1, k2 - 1)]
            ELSE [ok |-> FALSE, type |-> <<>>, key |-> <<>>]
        AfterKey(t1, t2, br, k1, k2) == Key(t1, t2, br, k1, k2, SkipSet(line, k2, Space))
        InKey(t1, t2, br, k1) == AfterKey(t1, t2, br, k1, FindSet(line, k1, Space \cup {","}))
        AfterBrace(t1, t2, br) == InKey(t1, t2, br, SkipSet(line, br + 1, Space))
        AfterType(t1, t2) == AfterBrace(t1, t2, SkipSet(line, t2, Space))
        InType(t1) == AfterType(t1, SkipSet(line, t1, Letter))
    IN InType(SkipSet(line, 1, Space) + 1)

\* FIELD_RE.match(line):
\* ^(?P<indent>\s*)(?P<name>[A-Za-z][A-Za-z0-9_-]*)\s*=\s*\{(?P<value>.*)\}\s*,?\s*$
\* The value is greedy: it runs to the last "}" of the line, after which only
\* whitespace and at most one comma may stand.
FIELD_RE(line) ==
    LET n == Len(line)
        cb == IF \E j \in 1..n : line[j] = "}"
              THEN CHOOSE j \in 1..n : line[j] = "}" /\ \A k \in (j+1)..n : line[k] # "}"
              ELSE 0
        Value(n1, n2, eq, ob, close, tail) ==
            IF /\ n1 <= n /\ line[n1] \in Letter
               /\ eq <= n /\ line[eq] = "="
               /\ ob <= n /\ line[ob] = "{"
               /\ close > ob
               /\ (tail = <<>> \/ tail = <<",">>)
            THEN [ok |-> TRUE, indent |-> Slice(line, 1, n1 - 1), name |-> Slice(line, n1, n2 - 1),
                  value |-> Slice(line, ob + 1, close - 1)]
            ELSE [ok |-> FALSE, indent |-> <<>>, name |-> <<>>, value |-> <<>>]
        AfterBrace(n1, n2, eq, ob, close) == Value(n1, n2, eq, ob, close, strip(Slice(line, close + 1, n)))
        AfterEq(n1, n2, eq) == AfterBrace(n1, n2, eq, SkipSet(line, eq + 1, Space), cb)
        AfterName(n1, n2) == AfterEq(n1, n2, SkipSet(line, n2, Space))
        InName(n1) == AfterName(n1, SkipSet(line, n1 + 1, Letter \cup Digit \cup {"_", "-"}))
    IN InName(SkipSet(line, 1, Space))

Field(indent, name, value) == [indent |-> indent, name |-> name, value |-> value]

\* the lines parse_entry scans: body_lines[:-1]
ScannedLines(body_lines) == Slice(body_lines, 1, Len(body_lines) - 1)

\* the loop of parse_entry over the scanned lines: the fields, in order
RECURSIVE ParseFields(_)
ParseFields(lines) ==
    IF lines = <<>> THEN <<>>
    ELSE LET Scan(stripped, fm) ==
                 IF stripped # <<>> /\ fm.ok THEN <<Field(fm.indent, fm.name, fm.value)>> ELSE <<>>
         IN Scan(rstrip(lines[1]), FIELD_RE(rstrip(lines[1]))) \o ParseFields(Tail(lines))

\* the loop of parse_entry over the scanned lines: the unknown lines, in order
RECURSIVE ParseUnknown(_)
ParseUnknown(lines) ==
    IF lines = <<>> THEN <<>>
    ELSE LET stripped == rstrip(lines[1])
         IN (IF stripped = <<>> \/ ~FIELD_RE(stripped).ok THEN <<lines[1]>> ELSE <<>>)
            \o ParseUnknown(Tail(lines))

\* a parse_entry that takes any first line for a header
parse_entry_any_header(entry_text) ==
    [ok |-> TRUE, entry_type |-> <<"m","i","s","c">>, key |-> <<"k">>,
     fields |-> ParseFields(ScannedLines(Tail(entry_text))),
     unknown |-> ParseUnknown(ScannedLines(Tail(entry_text)))]
\* parse_entry(entry_text); ok is FALSE where the source raises ValueError
parse_entry(entry_text) ==
    LET Body(m, body_lines) ==
            IF m.ok
            THEN [ok |-> TRUE, entry_type |-> m.type, key |-> m.key,
                  fields |-> ParseFields(body_lines), unknown |-> ParseUnknown(body_lines)]
            ELSE [ok |-> FALSE, entry_type |-> <<>>, key |-> <<>>, fields |-> <<>>, unknown |-> <<>>]
    IN Body(IF entry_text = <<>> THEN [ok |-> FALSE, type |-> <<>>, key |-> <<>>]
            ELSE ENTRY_START_RE(rstrip(entry_text[1])),
            IF entry_text = <<>> THEN <<>> ELSE ScannedLines(Tail(entry_text)))

\* f"{use_indent}{name} = {{{value}}},"
FieldLine(f) == f.indent \o f.name \o <<" ","="," ","{">> \o f.value \o <<"}",",">>

\* build_entry(entry_type, key, fields, unknown, indent_style), as its lines
build_entry(entry_type, key, fields, unknown, indent_style) ==
    <<<<"@">> \o entry_type \o <<"{">> \o key \o <<",">>>>
    \o [i \in 1..Len(fields) |-> FieldLine(fields[i])]
    \o unknown
    \o <<<<"}">>>>

(***************************************************************************)
(* Dates, URLs and notes.  An Optional[str] of the source that is only     *)
(* ever tested for truth is modelled by the string itself, None being the  *)
(* empty string.                                                           *)
(***************************************************************************)
\* whether the literal p (in lower case) stands in s at index i, letter case ignored
MatchAtI(s, i, p) ==
    i >= 1 /\ i + Len(p) - 1 <= Len(s) /\ \A k \in 1..Len(p) : LowerChar(s[i + k - 1]) = p[k]

\* re.sub over the whole of s, the match at an index seeing what stands before it
RECURSIVE SubFrom(_, _, _, _)
SubFrom(End(_, _), rep, s, from) ==
    LET At(i) == IF i = 0 THEN Slice(s, from, Len(s))
                 ELSE Slice(s, from, i - 1) \o rep \o SubFrom(End, rep, s, End(s, i))
    IN At(Search(End, s, from))

\* <word>\s+em: at index i, for a word of `words`, letter case ignored: the
\* index after the colon, 0 for no match
MarkerEnd(s, i, words) ==
    LET After(em, sp) == IF em > sp /\ MatchAtI(s, em, <<"e","m",":">>) THEN em + 3 ELSE 0
        Word(w) == After(SkipSet(s, i + Len(w), Space), i + Len(w))
    IN IF \E w \in words : MatchAtI(s, i, w)
       THEN Word(CHOOSE w \in words : MatchAtI(s, i, w))
       ELSE 0

\* Dispon[ií]vel\s+em:
DisponivelEnd(s, i) == MarkerEnd(s, i, {<<"d","i","s","p","o","n","i","v","e","l">>, <<"d","i","s","p","o","n","iacute","v","e","l">>})
\* Acess(?:o|ado)\s+em:
AcessoEnd(s, i) == MarkerEnd(s, i, {<<"a","c","e","s","s","o">>, <<"a","c","e","s","s","a","d","o">>})

\* Dispon[ií]vel\s+em:[^.;\n]+
DisponivelRunEnd(s, i) ==
    LET Run(e) == IF e # 0 /\ e <= Len(s) /\ s[e] \notin {".", ";"} THEN FindSet(s, e, {".", ";"}) ELSE 0
    IN Run(DisponivelEnd(s, i))

\* Acess(?:o|ado)\s+em:[^.;\n]+
AcessoRunEnd(s, i) ==
    LET Run(e) == IF e # 0 /\ e <= Len(s) /\ s[e] \notin {".", ";"} THEN FindSet(s, e, {".", ";"}) ELSE 0
    IN Run(AcessoEnd(s, i))

\* https?:// at index i: the index after the slashes, 0 for no match
SchemeEnd(s, i) ==
    IF MatchAt(s, i, <<"h","t","t","p","s",":","/","/">>) THEN i + 8
    ELSE IF MatchAt(s, i, <<"h","t","t","p",":","/","/">>) THEN i + 7
    ELSE 0

\* https?:// with re.IGNORECASE
SchemeEndI(s, i) ==
    IF MatchAtI(s, i, <<"h","t","t","p","s",":","/","/">>) THEN i + 8
    ELSE IF MatchAtI(s, i, <<"h","t","t","p",":","/","/">>) THEN i + 7
    ELSE 0

\* https?://\S+
HttpEnd(s, i) ==
    LET Run(e) == IF e # 0 /\ e <= Len(s) /\ s[e] \notin Space THEN FindSet(s, e, Space) ELSE 0
    IN Run(SchemeEnd(s, i))

\* https?://\S+ with re.IGNORECASE
HttpEndI(s, i) ==
    LET Run(e) == IF e # 0 /\ e <= Len(s) /\ s[e] \notin Space THEN FindSet(s, e, Space) ELSE 0
    IN Run(SchemeEndI(s, i))

\* [<>\s.,;:]+
PunctEnd(s, i) ==
    LET set == Space \cup {"<", ">", ".", ",", ";", ":"} IN
    IF i <= Len(s) /\ s[i] \in set THEN SkipSet(s, i, set) ELSE 0

\* \s+
SpacesEnd(s, i) == IF i <= Len(s) /\ s[i] \in Space THEN SkipSet(s, i, Space) ELSE 0

\* int(w) for a string of decimal digits with an optional sign (the
\* underscore and non-ASCII digit spellings int() also reads are left out)
IsInt(w) ==
    LET d == IF w # <<>> /\ w[1] \in {"+", "-"} THEN Tail(w) ELSE w
    IN d # <<>> /\ \A i \in 1..Len(d) : d[i] \in Digit

DigitVal(c) == CHOOSE v \in 0..9 : <<"0","1","2","3","4","5","6","7","8","9">>[v + 1] = c

RECURSIVE NatVal(_)
NatVal(d) == IF d = <<>> THEN 0 ELSE NatVal(Slice(d, 1, Len(d) - 1)) * 10 + DigitVal(d[Len(d)])

IntVal(w) ==
    IF w[1] = "-" THEN 0 - NatVal(Tail(w))
    ELSE IF w[1] = "+" THEN NatVal(Tail(w))
    ELSE NatVal(w)

RECURSIVE NatStr(_)
NatStr(n) ==
    IF n < 10 THEN <<<<"0","1","2","3","4","5","6","7","8","9">>[n + 1]>>
    ELSE NatStr(n \div 10) \o <<<<"0","1","2","3","4","5","6","7","8","9">>[(n % 10) + 1]>>

RECURSIVE ZeroPad(_, _)
ZeroPad(s, width) == IF Len(s) >= width THEN s ELSE ZeroPad(<<"0">> \o s, width)

\* f"{n:0<width>d}"
FormatInt(n, width) ==
    IF n < 0 THEN <<"-">> \o ZeroPad(NatStr(0 - n), width - 1)
    ELSE ZeroPad(NatStr(n), width)

\* the months table of normalize_date_pt, as (key, number) pairs
months ==
    { <<<<"j","a","n">>, 1>>, <<<<"j","a","n","e","i","r","o">>, 1>>, <<<<"f","e","v">>, 2>>, <<<<"f","e","v","e","r","e","i","r","o">>, 2>>,
      <<<<"m","a","r">>, 3>>, <<<<"m","a","r","ccedil","o">>, 3>>, <<<<"m","a","r","c","o">>, 3>>, <<<<"a","b","r">>, 4>>, <<<<"a","b","r","i","l">>, 4>>,
      <<<<"m","a","i">>, 5>>, <<<<"m","a","i","o">>, 5>>, <<<<"j","u","n">>, 6>>, <<<<"j","u","n","h","o">>, 6>>, <<<<"j","u","l">>, 7>>, <<<<"j","u","l","h","o">>, 7>>,
      <<<<"a","g","o">>, 8>>, <<<<"a","g","o","s","t","o">>, 8>>, <<<<"s","e","t">>, 9>>, <<<<"s","e","t","e","m","b","r","o">>, 9>>,
      <<<<"o","u","t">>, 10>>, <<<<"o","u","t","u","b","r","o">>, 10>>, <<<<"n","o","v">>, 11>>, <<<<"n","o","v","e","m","b","r","o">>, 11>>,
      <<<<"d","e","z">>, 12>>, <<<<"d","e","z","e","m","b","r","o">>, 12>> }

\* months.get(k), 0 for None
MonthOf(k) == IF \E m \in months : m[1] = k THEN (CHOOSE m \in months : m[1] = k)[2] ELSE 0

DaysIn(y, m) ==
    IF m \in {4, 6, 9, 11} THEN 30
    ELSE IF m = 2 THEN (IF (y % 4 = 0 /\ y % 100 # 0) \/ y % 400 = 0 THEN 29 ELSE 28)
    ELSE 31

\* datetime.fromisoformat(s).date().isoformat() for the spelling YYYY-MM-DD
\* (the other ISO 8601 spellings fromisoformat reads are left out); empty
\* where it raises
FromIso(s) ==
    IF /\ Len(s) = 10 /\ s[5] = "-" /\ s[8] = "-"
       /\ \A i \in {1, 2, 3, 4, 6, 7, 9, 10} : s[i] \in Digit
    THEN LET y == NatVal(Slice(s, 1, 4))
             m == NatVal(Slice(s, 6, 7))
             d == NatVal(Slice(s, 9, 10))
         IN IF y >= 1 /\ m \in 1..12 /\ d >= 1 /\ d <= DaysIn(y, m) THEN s ELSE <<>>
    ELSE <<>>

\* normalize_date_pt(date_str); empty for None
normalize_date_pt(date_str) ==
    LET Date(s, parts) ==
            IF Len(parts) = 3
            THEN IF ~IsInt(parts[1]) THEN <<>>
                 ELSE IF ~IsInt(parts[3]) THEN <<>>
                 ELSE IF MonthOf(Slice(parts[2], 1, 3)) # 0
                      THEN FormatInt(IntVal(parts[3]), 4) \o <<"-">>
                           \o FormatInt(MonthOf(Slice(parts[2], 1, 3)), 2)
                           \o <<"-">> \o FormatInt(IntVal(parts[1]), 2)
                      ELSE FromIso(s)
            ELSE FromIso(s)
        Parts(s) == Date(s, split(s))
    IN Parts(replace(replace(lower(strip(date_str)), <<"d","e"," ">>, <<>>), <<".">>, <<>>))

\* Dispon[ií]vel\s+em:\s*([^\s,;]+) at index i: where the group starts
UrlGroupStart(s, i) ==
    LET e == DisponivelEnd(s, i) IN IF e = 0 THEN 0 ELSE SkipSet(s, e, Space)

\* and the index after the group, 0 for no match
UrlGroupEnd(s, i) ==
    LET Group(g) == IF g # 0 /\ g <= Len(s) /\ s[g] \notin {",", ";"}
                    THEN FindSet(s, g, Space \cup {",", ";"}) ELSE 0
    IN Group(UrlGroupStart(s, i))

\* the url of extract_url_and_access; empty where the source leaves None
ExtractUrl(note_value) ==
    LET Strip(candidate) ==
            IF endswith(candidate, <<".">>) THEN Slice(candidate, 1, Len(candidate) - 1) ELSE candidate
        At(note, i) ==
            IF i = 0 THEN <<>>
            ELSE Strip(strip(Slice(note, UrlGroupStart(note, i), UrlGroupEnd(note, i) - 1)))
        In(note) == At(note, Search(UrlGroupEnd, note, 1))
    IN In(replace(replace(note_value, <<"<">>, <<>>), <<">">>, <<>>))

\* Acess(?:o|ado)\s+em:\s*([^.;\n]+) at index i: the index after the group.
\* \s* gives back one character of whitespace to the group when nothing else
\* can start it.
DateGroupStart(s, i) ==
    LET Start(e, g) ==
            IF e = 0 THEN 0
            ELSE IF g <= Len(s) /\ s[g] \notin {".", ";"} THEN g
            ELSE IF g > e THEN g - 1
            ELSE 0
        After(e) == Start(e, IF e = 0 THEN 0 ELSE SkipSet(s, e, Space))
    IN After(AcessoEnd(s, i))

DateGroupEnd(s, i) ==
    LET Group(g) == IF g = 0 THEN 0 ELSE FindSet(s, g, {".", ";"})
    IN Group(DateGroupStart(s, i))

\* the urldate of extract_url_and_access; empty where the source leaves None
ExtractUrldate(note_value) ==
    LET At(note, i) ==
            IF i = 0 THEN <<>>
            ELSE normalize_date_pt(Slice(note, DateGroupStart(note, i), DateGroupEnd(note, i) - 1))
        In(note) == At(note, Search(DateGroupEnd, note, 1))
    IN In(replace(replace(note_value, <<"<">>, <<>>), <<">">>, <<>>))

\* extract_url_and_access(note_value)
extract_url_and_access(note_value) ==
    [url |-> ExtractUrl(note_value), urldate |-> ExtractUrldate(note_value)]

\* is_trivial_note(note_value)
is_trivial_note(note_value) ==
    LET t1 == SubFrom(DisponivelRunEnd, <<>>, note_value, 1)
        t2 == SubFrom(AcessoRunEnd, <<>>, t1, 1)
        t3 == SubFrom(HttpEndI, <<>>, t2, 1)
        t4 == strip(SubFrom(PunctEnd, <<" ">>, t3, 1))
    IN t4 = <<>>

\* [A-Za-z0-9.-]
DomainChar == Letter \cup Digit \cup {".", "-"}

\* the dots at which \.[A-Za-z]{2,} can follow a run of [A-Za-z0-9.-]+ begun at i
DomainDots(s, i) ==
    { d \in (i + 1)..(SkipSet(s, i, DomainChar) - 1) :
        /\ s[d] = "."
        /\ d + 2 <= Len(s) /\ s[d + 1] \in Letter /\ s[d + 2] \in Letter }

\* \b(?:www\.)?[A-Za-z0-9.-]+\.[A-Za-z]{2,}(?:/\S*)? at index i.  "www." is
\* made of characters of the class that follows it, so taking the optional
\* group or not ends the match at the same place: after the last dot of the
\* run that two letters follow, its letters, and a path if a slash is next.
DomainEnd(s, i) ==
    LET Path(l) == IF l <= Len(s) /\ s[l] = "/" THEN FindSet(s, l + 1, Space) ELSE l
        Dot(d) == Path(SkipSet(s, d + 1, Letter))
    IN IF i <= Len(s) /\ s[i] \in DomainChar /\ WordBoundary(s, i) /\ DomainDots(s, i) # {}
       THEN Dot(CHOOSE d \in DomainDots(s, i) : \A o \in DomainDots(s, i) : o <= d)
       ELSE 0

\* clean_url_value(value); empty for None
clean_url_value(value) ==
    LET Found(candidate, i, j) ==
            IF i # 0 THEN rstripc(Slice(candidate, i, HttpEnd(candidate, i) - 1), {".", ",", ")", ";", "]"})
            ELSE IF j # 0 THEN Slice(candidate, j, DomainEnd(candidate, j) - 1)
            ELSE <<>>
        In(candidate) == Found(candidate, Search(HttpEnd, candidate, 1), Search(DomainEnd, candidate, 1))
    IN In(replace(replace(strip(value), <<"<">>, <<>>), <<">">>, <<>>))

(***************************************************************************)
(* Authors.                                                                *)
(***************************************************************************)
\* \bet\s*al\.?\b with re.IGNORECASE at index i
EtAlEnd(s, i) ==
    LET Tail2(k) == IF k <= Len(s) /\ s[k] = "." /\ WordBoundary(s, k + 1) THEN k + 1
                    ELSE IF WordBoundary(s, k) THEN k
                    ELSE 0
        Al(al) == IF WordBoundary(s, i) /\ MatchAtI(s, i, <<"e","t">>) /\ MatchAtI(s, al, <<"a","l">>)
                  THEN Tail2(al + 2) ELSE 0
    IN Al(SkipSet(s, i + 2, Space))

\* \bothers\.?\b with re.IGNORECASE at index i
OthersEnd(s, i) ==
    LET k == i + 6
    IN IF WordBoundary(s, i) /\ MatchAtI(s, i, <<"o","t","h","e","r","s">>)
       THEN IF k <= Len(s) /\ s[k] = "." /\ WordBoundary(s, k + 1) THEN k + 1
            ELSE IF WordBoundary(s, k) THEN k
            ELSE 0
       ELSE 0

\* \s+and\s+ at index i
AndEnd(s, i) ==
    LET And(a) == IF i <= Len(s) /\ s[i] \in Space /\ MatchAt(s, a, <<"a","n","d">>)
                     /\ a + 3 <= Len(s) /\ s[a + 3] \in Space
                  THEN SkipSet(s, a + 3, Space)
                  ELSE 0
    IN And(SkipSet(s, i, Space))

\* re.split(pattern, s) for a pattern without groups that never matches empty
RECURSIVE SplitFrom(_, _, _)
SplitFrom(End(_, _), s, from) ==
    LET At(i) == IF i = 0 THEN <<Slice(s, from, Len(s))>>
                 ELSE <<Slice(s, from, i - 1)>> \o SplitFrom(End, s, End(s, i))
    IN At(Search(End, s, from))

\* str.split(sep) for a one-character sep
RECURSIVE splitc(_, _)
splitc(s, c) ==
    LET At(i) == IF i > Len(s) THEN <<s>>
                 ELSE <<Slice(s, 1, i - 1)>> \o splitc(Slice(s, i + 1, Len(s)), c)
    IN At(FindSet(s, 1, {c}))

\* the last branch of _smart_title_case: lower[0].upper() + lower[1:]
Capitalize(token) ==
    IF token = <<>> THEN token
    ELSE <<UpperChar(LowerChar(token[1]))>> \o lower(Tail(token))

\* _smart_title_case applied to each part of token.split("-")
TitleCasePart(part) == IF contains(part, <<".">>) THEN upper(part) ELSE Capitalize(part)

\* _smart_title_case(token): a part of a hyphenated token holds no hyphen, so
\* the recursion is one level deep
_smart_title_case(token) ==
    LET Parts(parts) == join([i \in 1..Len(parts) |-> TitleCasePart(parts[i])], <<"-">>)
    IN IF contains(token, <<"-">>) THEN Parts(splitc(token, "-")) ELSE TitleCasePart(token)

particles ==
    { <<"d","a">>, <<"d","e">>, <<"d","o">>, <<"d","a","s">>, <<"d","o","s">>, <<"e">>, <<"d">>, <<"d","i">>, <<"d","u">>, <<"v","a","n">>, <<"v","o","n">>,
      <<"d","e","r">>, <<"d","e","l">>, <<"d","e","l","l","a">>, <<"l","a">>, <<"l","e">> }

\* the loop over given_parts in _format_author_abnt
GivenPart(part, position) ==
    LET Given(pl) == IF pl \in particles /\ position # 1 THEN pl ELSE _smart_title_case(part)
    IN Given(stripc(lower(part), {".", ","}))

FormatGiven(given_parts) ==
    join([i \in 1..Len(given_parts) |-> GivenPart(given_parts[i], i)], <<" ">>)

\* _format_author_abnt(name)
_format_author_abnt(name0) ==
    LET Format(name, comma, parts) ==
            IF name = <<>> THEN name
            ELSE IF comma <= Len(name)
            THEN strip(upper(strip(Slice(name, 1, comma - 1))) \o <<","," ">>
                       \o FormatGiven(split(strip(Slice(name, comma + 1, Len(name))))))
            ELSE IF Len(parts) = 1 THEN upper(parts[1])
            ELSE strip(upper(parts[Len(parts)]) \o <<","," ">> \o FormatGiven(Slice(parts, 1, Len(parts) - 1)))
        Name(name) == Format(name, FindSet(name, 1, {","}), split(name))
    IN Name(SubFrom(SpacesEnd, <<" ">>, strip(name0), 1))

\* the loop of normalize_author_list_abnt over the parts
RECURSIVE NormalizeAuthors(_)
NormalizeAuthors(parts) ==
    LET Token(token) == IF token = <<>> THEN <<>>
                        ELSE IF Search(OthersEnd, token, 1) # 0 THEN <<<<"o","t","h","e","r","s",".">>>>
                        ELSE <<_format_author_abnt(token)>>
    IN IF parts = <<>> THEN <<>>
       ELSE Token(stripc(strip(parts[1]), {"{", "}", " "})) \o NormalizeAuthors(Tail(parts))

\* normalize_author_list_abnt(author_value)
normalize_author_list_abnt(author_value) ==
    join(NormalizeAuthors(SplitFrom(AndEnd, strip(author_value), 1)), <<" ","a","n","d"," ">>)

(***************************************************************************)
(* FieldNormalizer.                                                        *)
(***************************************************************************)
\* {n for _, n, _ in fields}
Names(fields) == {fields[i].name : i \in 1..Len(fields)}
\* {n.lower() for _, n, _ in fields}
LowerNames(fields) == {lower(fields[i].name) : i \in 1..Len(fields)}

\* new_fields[0][0] if new_fields else ""
FirstIndent(fields) == IF fields # <<>> THEN fields[1].indent ELSE <<>>

\* crossref_key of normalize_fields: the stripped value of the first field
\* named crossref; empty where the source leaves None
CrossrefKey(fields) ==
    IF \E i \in 1..Len(fields) : lower(fields[i].name) = <<"c","r","o","s","s","r","e","f">>
    THEN strip(fields[CHOOSE i \in 1..Len(fields) :
                          /\ lower(fields[i].name) = <<"c","r","o","s","s","r","e","f">>
                          /\ \A j \in 1..(i-1) : lower(fields[j].name) # <<"c","r","o","s","s","r","e","f">>].value)
    ELSE <<>>

\* an inheritance that lets the parent's field in whatever the child holds
InheritedAll(parent_fields, child_names) == parent_fields
\* the parent fields a child with field names child_names inherits
Inherited(parent_fields, child_names) ==
    LET Keep(p) == lower(p.name) \notin child_names /\ lower(p.name) \notin {<<"k","e","y">>, <<"c","r","o","s","s","r","e","f">>}
    IN SelectSeq(parent_fields, Keep)

\* whether normalize_fields resolves the crossref of fields
Resolves(fields, map) ==
    LET In(crossref_key) == crossref_key # <<>> /\ crossref_key \in DOMAIN map
    IN In(CrossrefKey(fields))

\* merged_fields of normalize_fields
merged_fields(fields, map) ==
    IF Resolves(fields, map)
    THEN LET NotCrossref(f) == lower(f.name) # <<"c","r","o","s","s","r","e","f">>
         IN SelectSeq(fields \o Inherited(map[CrossrefKey(fields)].fields, LowerNames(fields)),
                      NotCrossref)
    ELSE fields

\* re.search(r"Dispon[ií]vel\s+em:|https?://", v, flags=re.IGNORECASE)
HasUrlFragment(v) ==
    \E i \in 1..Len(v) : DisponivelEnd(v, i) # 0 \/ SchemeEndI(v, i) # 0

\* re.split(r"Dispon[ií]vel\s+em:\s*", v, flags=re.IGNORECASE)[0]
BeforeDisponivel(v) ==
    LET At(i) == IF i = 0 THEN v ELSE Slice(v, 1, i - 1) IN At(Search(DisponivelEnd, v, 1))

\* re.split(r"Acess(?:o|ado)\s+em:\s*", v, flags=re.IGNORECASE)[0]
BeforeAcesso(v) ==
    LET At(i) == IF i = 0 THEN v ELSE Slice(v, 1, i - 1) IN At(Search(AcessoEnd, v, 1))

\* the url and urldate fields the journal/publisher/booktitle/address branch appends
ExtractedFields(indent, v, existing_names) ==
    LET Add(ex) ==
            (IF ex.url # <<>> /\ <<"u","r","l">> \notin existing_names
             THEN <<Field(indent, <<"u","r","l">>, ex.url)>> ELSE <<>>)
            \o (IF ex.urldate # <<>> /\ <<"u","r","l","d","a","t","e">> \notin existing_names
                THEN <<Field(indent, <<"u","r","l","d","a","t","e">>, ex.urldate)>> ELSE <<>>)
    IN Add(extract_url_and_access(v))

\* one iteration of `for indent, name, value in merged_fields`; acc holds
\* new_fields and note_value_for_url
NormalizeStep(acc, key, f) ==
    LET lname == lower(f.name)
        bardin == lower(key) = <<"b","a","r","d","i","n","2","0","1","6">>
        Url(v, cleaned) == IF lname = <<"u","r","l">> /\ cleaned # <<>> THEN cleaned ELSE v
        Doi(v) == IF lname = <<"d","o","i">>
                  THEN strip(replace(replace(v, <<"h","t","t","p",":","/","/","d","o","i",".","o","r","g","/">>, <<>>), <<"h","t","t","p","s",":","/","/","d","o","i",".","o","r","g","/">>, <<>>))
                  ELSE v
        Author(v) == IF lname = <<"a","u","t","h","o","r">>
                     THEN normalize_author_list_abnt(SubFrom(EtAlEnd, <<"a","n","d"," ","o","t","h","e","r","s">>, v, 1))
                     ELSE v
        Bardin(v) == IF bardin /\ lname = <<"p","u","b","l","i","s","h","e","r">>
                        /\ stripc(v, {"{", "}", " "}) \in {<<"S","atilde","o"," ","P","a","u","l","o">>, <<"S","a","o"," ","P","a","u","l","o">>}
                     THEN <<"E","d","i","ccedil","otilde","e","s"," ","7","0">>
                     ELSE IF bardin /\ lname = <<"a","d","d","r","e","s","s">> /\ strip(v) = <<>> THEN <<"S","atilde","o"," ","P","a","u","l","o">>
                     ELSE v
        Keep(v, note, extra, trivial) ==
            IF lname = <<"n","o","t","e">> /\ trivial
            THEN [new_fields |-> acc.new_fields, note |-> note]
            ELSE IF lname = <<"k","e","y">> \/ (bardin /\ lname = <<"e","d","i","t","i","o","n">> /\ v = <<"7","0">>)
            THEN [new_fields |-> acc.new_fields \o extra, note |-> note]
            ELSE [new_fields |-> acc.new_fields \o extra \o <<Field(f.indent, lname, Bardin(v))>>,
                  note |-> note]
        Split(v, splits) ==
            Keep(IF splits THEN rstripc(strip(BeforeDisponivel(v)), {" ", ".", ";"}) ELSE v,
                 IF lname = <<"n","o","t","e">> THEN v ELSE acc.note,
                 IF splits THEN ExtractedFields(f.indent, v, Names(acc.new_fields)) ELSE <<>>,
                 lname = <<"n","o","t","e">> /\ is_trivial_note(v))
        Value(v) ==
            Split(v, lname \in {<<"j","o","u","r","n","a","l">>, <<"p","u","b","l","i","s","h","e","r">>, <<"b","o","o","k","t","i","t","l","e">>, <<"a","d","d","r","e","s","s">>} /\ HasUrlFragment(v))
        Strip(v) == Value(Author(Doi(Url(v, clean_url_value(v)))))
    IN Strip(strip(f.value))

\* the loop `for indent, name, value in merged_fields`
RECURSIVE NormalizeLoop(_, _, _)
NormalizeLoop(acc, key, fields) ==
    IF fields = <<>> THEN acc
    ELSE NormalizeLoop(NormalizeStep(acc, key, fields[1]), key, Tail(fields))

\* new_fields.append((new_fields[0][0] if new_fields else "", name, value))
AppendField(fields, name, value) == Append(fields, Field(FirstIndent(fields), name, value))

\* "If Bardin2016 missing correct publisher/address, add them"
AddBardin(key, fields) ==
    LET Address(a) == IF <<"a","d","d","r","e","s","s">> \notin Names(fields)
                      THEN AppendField(a, <<"a","d","d","r","e","s","s">>, <<"S","atilde","o"," ","P","a","u","l","o">>) ELSE a
    IN IF lower(key) = <<"b","a","r","d","i","n","2","0","1","6">>
       THEN Address(IF <<"p","u","b","l","i","s","h","e","r">> \notin Names(fields)
                    THEN AppendField(fields, <<"p","u","b","l","i","s","h","e","r">>, <<"E","d","i","ccedil","otilde","e","s"," ","7","0">>) ELSE fields)
       ELSE fields

\* "Extract url/urldate from note for misc/online entries"
AddNoteUrl(fields, note) ==
    LET Urldate(a, ex) == IF ex.urldate # <<>> /\ <<"u","r","l","d","a","t","e">> \notin Names(a)
                          THEN AppendField(a, <<"u","r","l","d","a","t","e">>, ex.urldate) ELSE a
        Url(ex) == Urldate(IF ex.url # <<>> THEN AppendField(fields, <<"u","r","l">>, ex.url) ELSE fields, ex)
    IN IF note # <<>> /\ <<"u","r","l">> \notin Names(fields)
       THEN Url(extract_url_and_access(note))
       ELSE fields

\* the title the misc branch derives from the note; empty for none
TitleFromNote(note) ==
    LET Title(candidate) == IF candidate = <<>> THEN <<>>
                            ELSE rstripc(strip(BeforeAcesso(candidate)), {" ", ".", ";"})
    IN Title(strip(BeforeDisponivel(replace(replace(note, <<"<">>, <<>>), <<">">>, <<>>))))

\* the value of the first urldate field; empty for None
FirstUrldate(fields) ==
    IF \E i \in 1..Len(fields) : fields[i].name = <<"u","r","l","d","a","t","e">>
    THEN fields[CHOOSE i \in 1..Len(fields) :
                    fields[i].name = <<"u","r","l","d","a","t","e">> /\ \A j \in 1..(i-1) : fields[j].name # <<"u","r","l","d","a","t","e">>].value
    ELSE <<>>

\* re.match(r"^\d{4}-\d{2}-\d{2}$", s)
IsIsoDate(s) ==
    /\ Len(s) = 10 /\ s[5] = "-" /\ s[8] = "-"
    /\ \A i \in {1, 2, 3, 4, 6, 7, 9, 10} : s[i] \in Digit

\* "ABNT-friendly enrichment for misc entries in Portuguese context"
EnrichMisc(key, fields, note) ==
    LET names == Names(fields)
        Howpublished(c) == IF <<"u","r","l">> \in Names(c) /\ <<"h","o","w","p","u","b","l","i","s","h","e","d">> \notin Names(c)
                           THEN AppendField(c, <<"h","o","w","p","u","b","l","i","s","h","e","d">>, <<"O","n","l","i","n","e">>) ELSE c
        Year(b, urldate_val) == Howpublished(IF <<"y","e","a","r">> \notin Names(b) /\ IsIsoDate(urldate_val)
                                             THEN AppendField(b, <<"y","e","a","r">>, Slice(urldate_val, 1, 4))
                                             ELSE b)
        Urldate(b) == Year(b, FirstUrldate(b))
        Title(a, title_candidate) ==
            Urldate(IF <<"t","i","t","l","e">> \notin names /\ note # <<>> /\ title_candidate # <<>>
                    THEN AppendField(a, <<"t","i","t","l","e">>, title_candidate) ELSE a)
        Author(inferred_author) ==
            Title(IF <<"a","u","t","h","o","r">> \notin names /\ inferred_author # <<>>
                  THEN AppendField(fields, <<"a","u","t","h","o","r">>, inferred_author) ELSE fields,
                  TitleFromNote(note))
    IN Author(IF contains(lower(key), <<"b","r","a","s","i","l">>) THEN <<"B","R","A","S","I","L">>
              ELSE IF startswith(lower(key), <<"w","3","c">>) THEN <<"W","3","C">>
              ELSE <<>>)

\* pt_markers, each in lower case (they are searched with re.IGNORECASE);
\* Dispon[ií]vel and Educa[çc][aã]o are listed by their alternatives
pt_markers ==
    { <<"d","i","s","p","o","n","i","v","e","l">>, <<"d","i","s","p","o","n","iacute","v","e","l">>, <<"a","c","e","s","s","o">>, <<"l","e","i"," ","n","ordm">>, <<"d","e","c","r","e","t","o"," ","n","ordm">>,
      <<"e","d","u","c","a","ccedil","a","o">>, <<"e","d","u","c","a","ccedil","atilde","o">>, <<"e","d","u","c","a","c","a","o">>, <<"e","d","u","c","a","c","atilde","o">>,
      <<"s","o","c","i","e","d","a","d","e">>, <<"s","atilde","o"," ","p","a","u","l","o">>, <<"e","d","i","ccedil","otilde","e","s">>, <<"r","e","v","i","s","t","a">>, <<"a","n","a","i","s">> }

\* "language detection for PT-BR"
AddLanguage(fields) ==
    IF /\ <<"l","a","n","g","u","a","g","e">> \notin Names(fields)
       /\ \E i \in 1..Len(fields) : \E p \in pt_markers :
              contains(lower(fields[i].name \o <<" ">> \o fields[i].value), p)
    THEN AppendField(fields, <<"l","a","n","g","u","a","g","e">>, <<"p","o","r","t","u","g","u","e","s","e">>)
    ELSE fields

\* normalize_fields(entry_type, key, fields, entries_map)
normalize_fields(entry_type, key, fields, map) ==
    LET Misc(a, note) == AddLanguage(IF lower(entry_type) = <<"m","i","s","c">> THEN EnrichMisc(key, a, note) ELSE a)
        After(loop) == Misc(AddNoteUrl(AddBardin(key, loop.new_fields), loop.note), loop.note)
    IN After(NormalizeLoop([new_fields |-> <<>>, note |-> <<>>], key, merged_fields(fields, map)))

(***************************************************************************)
(* FieldOrderer and Deduplicator.                                          *)
(***************************************************************************)
\* order_map.get(entry_type.lower(), [])
order_map(entry_type) ==
    LET t == lower(entry_type) IN
    IF t = <<"a","r","t","i","c","l","e">>
    THEN <<<<"a","u","t","h","o","r">>, <<"t","i","t","l","e">>, <<"j","o","u","r","n","a","l">>, <<"v","o","l","u","m","e">>, <<"n","u","m","b","e","r">>, <<"p","a","g","e","s">>, <<"y","e","a","r">>, <<"d","o","i">>,
           <<"u","r","l">>, <<"u","r","l","d","a","t","e">>, <<"l","a","n","g","u","a","g","e">>>>
    ELSE IF t = <<"b","o","o","k">>
    THEN <<<<"a","u","t","h","o","r">>, <<"t","i","t","l","e">>, <<"e","d","i","t","i","o","n">>, <<"a","d","d","r","e","s","s">>, <<"p","u","b","l","i","s","h","e","r">>, <<"y","e","a","r">>, <<"i","s","b","n">>, <<"d","o","i">>,
           <<"u","r","l">>, <<"u","r","l","d","a","t","e">>, <<"l","a","n","g","u","a","g","e">>>>
    ELSE IF t = <<"i","n","p","r","o","c","e","e","d","i","n","g","s">>
    THEN <<<<"a","u","t","h","o","r">>, <<"t","i","t","l","e">>, <<"b","o","o","k","t","i","t","l","e">>, <<"y","e","a","r">>, <<"o","r","g","a","n","i","z","a","t","i","o","n">>, <<"p","u","b","l","i","s","h","e","r">>, <<"a","d","d","r","e","s","s">>,
           <<"p","a","g","e","s">>, <<"d","o","i">>, <<"u","r","l">>, <<"u","r","l","d","a","t","e">>, <<"l","a","n","g","u","a","g","e">>>>
    ELSE IF t = <<"t","e","c","h","r","e","p","o","r","t">>
    THEN <<<<"a","u","t","h","o","r">>, <<"t","i","t","l","e">>, <<"i","n","s","t","i","t","u","t","i","o","n">>, <<"y","e","a","r">>, <<"n","u","m","b","e","r">>, <<"a","d","d","r","e","s","s">>, <<"d","o","i">>, <<"u","r","l">>,
           <<"u","r","l","d","a","t","e">>, <<"l","a","n","g","u","a","g","e">>>>
    ELSE IF t = <<"m","i","s","c">>
    THEN <<<<"a","u","t","h","o","r">>, <<"t","i","t","l","e">>, <<"y","e","a","r">>, <<"h","o","w","p","u","b","l","i","s","h","e","d">>, <<"u","r","l">>, <<"u","r","l","d","a","t","e">>, <<"l","a","n","g","u","a","g","e">>, <<"n","o","t","e">>>>
    ELSE <<>>

\* index of the first field named name, 0 if none
FirstNamed(fields, name) ==
    IF \E i \in 1..Len(fields) : fields[i].name = name
    THEN CHOOSE i \in 1..Len(fields) : fields[i].name = name /\ \A j \in 1..(i-1) : fields[j].name # name
    ELSE 0

\* "add desired fields first": for each name of desired, the first field so named
RECURSIVE DesiredFirst(_, _)
DesiredFirst(desired, fields) ==
    LET First(i) == IF i # 0 THEN <<fields[i]>> ELSE <<>>
    IN IF desired = <<>> THEN <<>>
       ELSE First(FirstNamed(fields, desired[1])) \o DesiredFirst(Tail(desired), fields)

\* "then remaining fields": a field goes in if its name is not in `used`, and
\* its name joins `used`
RECURSIVE Remaining(_, _)
Remaining(fields, used) ==
    IF fields = <<>> THEN <<>>
    ELSE IF fields[1].name \in used THEN Remaining(Tail(fields), used)
    ELSE <<fields[1]>> \o Remaining(Tail(fields), used \cup {fields[1].name})

\* order_fields(entry_type, fields)
order_fields(entry_type, fields) ==
    LET Indent(ordered) ==
            [i \in 1..Len(ordered) |-> Field(FirstIndent(fields), ordered[i].name, ordered[i].value)]
        Rest(first) == Indent(first \o Remaining(fields, Names(first)))
    IN Rest(DesiredFirst(order_map(entry_type), fields))

\* the value entry_fingerprint leaves in doi, url or title: that of the last
\* field with the name, stripped and lowered; empty if there is none
LastValue(fields, name) ==
    IF \E i \in 1..Len(fields) : lower(fields[i].name) = name
    THEN lower(strip(fields[CHOOSE i \in 1..Len(fields) :
                                /\ lower(fields[i].name) = name
                                /\ \A j \in (i+1)..Len(fields) : lower(fields[j].name) # name].value))
    ELSE <<>>

\* re.sub(r"[^a-z0-9]+", "", t)
AlnumOnly(t) ==
    LET Keep(c) == c \in Digit \/ c \in {LowerSeq[i] : i \in 1..26}
    IN SelectSeq(t, Keep)

\* entry_fingerprint(entry_type, key, fields)
entry_fingerprint(entry_type, key, fields) ==
    <<LastValue(fields, <<"d","o","i">>), LastValue(fields, <<"u","r","l">>), AlnumOnly(LastValue(fields, <<"t","i","t","l","e">>))>>

(***************************************************************************)
(* split_entries, one line of the document per step.                       *)
(***************************************************************************)
SplitInit ==
    /\ pos = 1 /\ in_entry = FALSE /\ current = <<>> /\ depth = 0
    /\ entries = <<>> /\ start = 0 /\ spans = <<>>

\* one iteration of `for line in text.splitlines()`
SplitLine ==
    /\ pc = "split"
    /\ pos <= Len(text)
    /\ LET line == text[pos]
           grown == Append(current, line)
           deeper == depth + BraceDelta(line)
       IN IF ~in_entry
          THEN IF IsEntryStart(line)
               THEN /\ in_entry' = TRUE
                    /\ current' = <<line>>
                    /\ depth' = BraceDelta(line)
                    /\ start' = pos
                    /\ UNCHANGED <<entries, spans>>
               ELSE UNCHANGED <<in_entry, current, depth, start, entries, spans>>
          ELSE IF deeper <= 0
               THEN /\ entries' = Append(entries, StripBlock(grown))
                    /\ spans' = Append(spans, [first |-> start, last |-> pos])
                    /\ current' = <<>>
                    /\ in_entry' = FALSE
                    /\ depth' = 0
                    /\ UNCHANGED start
               ELSE /\ current' = grown
                    /\ depth' = deeper
                    /\ UNCHANGED <<in_entry, start, entries, spans>>
    /\ pos' = pos + 1
    /\ UNCHANGED <<text, pc, run, log, args, result>>
    /\ UNCHANGED mainVars

\* the end of split_entries: `if current: entries.append(...)`, and its return
SplitReturn ==
    /\ pc = "split"
    /\ pos > Len(text)
    /\ IF current # <<>>
       THEN /\ entries' = Append(entries, StripBlock(current))
            /\ spans' = Append(spans, [first |-> start, last |-> Len(text)])
       ELSE UNCHANGED <<entries, spans>>
    /\ pc' = "parse"
    /\ idx' = 1
    /\ UNCHANGED <<text, pos, in_entry, current, depth, start, run, log, args, result>>
    /\ UNCHANGED <<parsed, entries_map, normalized_entries, seen, dropped, changed, output_text>>

(***************************************************************************)
(* main: the loop that parses every block, the loop that normalizes,       *)
(* orders, deduplicates and rebuilds every record, and the output text.    *)
(***************************************************************************)
\* what main appends to `parsed` for a block: the tuple parse_entry returns,
\* or ("", "", [], [entry_text]) where it raises (the one element of that
\* last list is the block, kept here as the block's lines)
ParsedRecord(entry_text) ==
    LET Record(p) ==
            IF p.ok
            THEN [entry_type |-> p.entry_type, key |-> p.key, fields |-> p.fields, unknown |-> p.unknown]
            ELSE [entry_type |-> <<>>, key |-> <<>>, fields |-> <<>>, unknown |-> entry_text]
    IN Record(parse_entry(entry_text))

\* entries_map[key] = (entry_type, fields, unknown)
MapPut(map, key, value) ==
    [k \in (DOMAIN map) \cup {key} |-> IF k = key THEN value ELSE map[k]]

\* one iteration of `for entry_text in entries`
ParseEntry ==
    /\ pc = "parse"
    /\ idx <= Len(entries)
    /\ \E r \in {ParsedRecord(entries[idx])} :
          /\ parsed' = Append(parsed, r)
          /\ entries_map' = IF r.entry_type # <<>>
                            THEN MapPut(entries_map, r.key,
                                        [entry_type |-> r.entry_type, fields |-> r.fields,
                                         unknown |-> r.unknown])
                            ELSE entries_map
    /\ idx' = idx + 1
    /\ UNCHANGED <<text, pc, run, log, args, result>>
    /\ UNCHANGED splitVars
    /\ UNCHANGED <<normalized_entries, seen, dropped, changed, output_text>>

\* the end of the first loop
ParseDone ==
    /\ pc = "parse"
    /\ idx > Len(entries)
    /\ pc' = "normalize"
    /\ idx' = 1
    /\ UNCHANGED <<text, run, log, args, result>>
    /\ UNCHANGED splitVars
    /\ UNCHANGED <<parsed, entries_map, normalized_entries, seen, dropped, changed, output_text>>

\* any(fp)
AnyFp(fp) == fp[1] # <<>> \/ fp[2] # <<>> \/ fp[3] # <<>>

\* whether main drops the record with fingerprint fp: `if any(fp): if fp in seen`
IsDuplicate(fp, seenSet) == AnyFp(fp) /\ fp \in seenSet

\* a main without `seen.add(fp)`
SeenAfterForget(fp, seenSet) == seenSet
\* `seen` after a record with fingerprint fp is kept: `if any(fp): ... seen.add(fp)`
SeenAfter(fp, seenSet) == IF AnyFp(fp) THEN seenSet \cup {fp} ELSE seenSet

\* a main that counts every record it emits as modified
ChangedAfterAlways(n, new_fields, fields) == n + 1
\* `changed` after a record is kept: `if new_fields != fields: changed += 1`
ChangedAfter(n, new_fields, fields) == IF new_fields # fields THEN n + 1 ELSE n

\* one iteration of `for entry_type, key, fields, unknown in parsed`
NormalizeEntry ==
    /\ pc = "normalize"
    /\ idx <= Len(parsed)
    /\ LET e == parsed[idx]
           Passthrough ==
               /\ normalized_entries' = Append(normalized_entries, e.unknown)
               /\ log' = Append(log, [src |-> idx, outcome |-> "passthrough", merged |-> <<>>,
                                       new_fields |-> <<>>, fp |-> <<<<>>, <<>>, <<>>>>,
                                       modified |-> FALSE, emitted |-> e.unknown])
               /\ UNCHANGED <<seen, dropped, changed>>
           Drop(merged, new_fields, fp) ==
               /\ dropped' = dropped + 1
               /\ log' = Append(log, [src |-> idx, outcome |-> "dropped", merged |-> merged,
                                       new_fields |-> new_fields, fp |-> fp,
                                       modified |-> FALSE, emitted |-> <<>>])
               /\ UNCHANGED <<normalized_entries, seen, changed>>
           Emit(merged, new_fields, fp, built) ==
               /\ seen' = SeenAfter(fp, seen)
               /\ changed' = ChangedAfter(changed, new_fields, e.fields)
               /\ normalized_entries' = Append(normalized_entries, built)
               /\ log' = Append(log, [src |-> idx, outcome |-> "emitted", merged |-> merged,
                                       new_fields |-> new_fields, fp |-> fp,
                                       modified |-> new_fields # e.fields, emitted |-> built])
               /\ UNCHANGED dropped
           Dedup(merged, new_fields, fp) ==
               IF IsDuplicate(fp, seen) THEN Drop(merged, new_fields, fp)
               ELSE Emit(merged, new_fields, fp,
                         build_entry(e.entry_type, e.key, new_fields, e.unknown,
                                     FirstIndent(e.fields)))
           Ordered(merged, new_fields) ==
               Dedup(merged, new_fields, entry_fingerprint(e.entry_type, e.key, new_fields))
       IN IF e.entry_type = <<>> THEN Passthrough
          ELSE Ordered(merged_fields(e.fields, entries_map),
                       order_fields(e.entry_type,
                                    normalize_fields(e.entry_type, e.key, e.fields, entries_map)))
    /\ idx' = idx + 1
    /\ UNCHANGED <<text, pc, run, args, result, parsed, entries_map, output_text>>
    /\ UNCHANGED splitVars

\* ("\n\n".join(normalized_entries) + "\n").splitlines(): the entries' lines
\* with one empty line between two entries; no entry at all leaves "\n"
RECURSIVE JoinEntries(_)
JoinEntries(list) ==
    IF list = <<>> THEN <<<<>>>>
    ELSE IF Len(list) = 1 THEN list[1]
    ELSE list[1] \o <<<<>>>> \o JoinEntries(Tail(list))

\* the end of the second loop: output_text is written to the file
WriteOutput ==
    /\ pc = "normalize"
    /\ idx > Len(parsed)
    /\ output_text' = JoinEntries(normalized_entries)
    /\ pc' = "done"
    /\ UNCHANGED <<text, run, log, args, result>>
    /\ UNCHANGED splitVars
    /\ UNCHANGED <<parsed, entries_map, idx, normalized_entries, seen, dropped, changed>>

\* the program is run again on the file it has just rewritten
RunAgain ==
    /\ pc = "done"
    /\ run = 1
    /\ run' = 2
    /\ text' = output_text
    /\ pc' = "split"
    /\ pos' = 1 /\ in_entry' = FALSE /\ current' = <<>> /\ depth' = 0
    /\ entries' = <<>> /\ start' = 0 /\ spans' = <<>>
    /\ parsed' = <<>> /\ entries_map' = <<>> /\ idx' = 1 /\ normalized_entries' = <<>>
    /\ seen' = {} /\ dropped' = 0 /\ changed' = 0 /\ output_text' = <<>>
    /\ log' = <<>>
    /\ UNCHANGED <<args, result>>

Next == SplitLine \/ SplitReturn \/ ParseEntry \/ ParseDone \/ NormalizeEntry \/ WriteOutput \/ RunAgain

(***************************************************************************)
(* Spec: main on every document made of up to MaxEntries records of        *)
(* EntryPool, and then again on the text it wrote.                         *)
(***************************************************************************)
MaxEntries == 3

EntryPool ==
    { <<<<"@","a","r","t","i","c","l","e","{","a",",">>, <<" ","t","i","t","l","e"," ","="," ","{","T","}",",">>, <<"}">>>>,
      <<<<"@","a","r","t","i","c","l","e","{","b",",">>, <<" ","T","i","t","l","e"," ","="," ","{"," ","t"," ","}",",">>, <<"}">>>>,
      <<<<"@","b","o","o","k","{","p",",">>, <<" ","d","o","i"," ","="," ","{","D","}",",">>, <<" ","y","e","a","r"," ","="," ","{","1","}",",">>, <<" ","k","e","y"," ","="," ","{","K","}",",">>, <<"}">>>>,
      <<<<"@","b","o","o","k","{","p",",">>, <<" ","y","e","a","r"," ","="," ","{","3","}",",">>, <<"}">>>>,
      <<<<"@","a","r","t","i","c","l","e","{","c",",">>, <<" ","c","r","o","s","s","r","e","f"," ","="," ","{","p","}",",">>, <<" ","D","o","i"," ","="," ","{","E","}",",">>, <<"}">>>>,
      <<<<"@","m","i","s","c","{","d">>, <<" ","t","i","t","l","e"," ","="," ","{","T","}",",">>, <<"}">>>>,
      <<<<"@","a","r","t","i","c","l","e","{","v",",">>, <<" ","n","o","t","e"," ","="," ","{","V","e","r"," ","(","D","i","s","p","o","n","i","v","e","l"," ","e","m",":"," ","h","t","t","p",":","/","/","a",".","c","o",")",".","}",",">>, <<"}">>>>,
      <<<<"@","s","t","r","i","n","g","{","s","}">>>> }

RECURSIVE SeqsUpTo(_, _)
SeqsUpTo(S, n) ==
    IF n = 0 THEN {<<>>}
    ELSE LET shorter == SeqsUpTo(S, n - 1)
         IN shorter \cup {Append(s, x) : s \in {t \in shorter : Len(t) = n - 1}, x \in S}

RECURSIVE Flatten(_)
Flatten(list) == IF list = <<>> THEN <<>> ELSE list[1] \o Flatten(Tail(list))

Documents == {Flatten(d) : d \in SeqsUpTo(EntryPool, MaxEntries) \ {<<>>}}

Init ==
    /\ text \in Documents
    /\ pc = "split" /\ run = 1 /\ log = <<>> /\ args = <<>> /\ result = <<>>
    /\ pos = 1 /\ in_entry = FALSE /\ current = <<>> /\ depth = 0
    /\ entries = <<>> /\ start = 0 /\ spans = <<>>
    /\ parsed = <<>> /\ entries_map = <<>> /\ idx = 1 /\ normalized_entries = <<>>
    /\ seen = {} /\ dropped = 0 /\ changed = 0 /\ output_text = <<>>

Spec == Init /\ [][Next]_vars

(***************************************************************************)
(* SpecFields: normalize_fields and order_fields applied on their own, to  *)
(* every record of up to MaxFields fields of FieldPool.                    *)
(***************************************************************************)
MaxFields == 2

FieldPool ==
    { Field(<<" ">>, <<"c","r","o","s","s","r","e","f">>, <<"z","z">>),
      Field(<<" ">>, <<"c","r","o","s","s","r","e","f">>, <<"p">>),
      Field(<<" ">>, <<"t","i","t","l","e">>, <<"A">>),
      Field(<<" ">>, <<"t","i","t","l","e">>, <<"B">>),
      Field(<<" ">>, <<"n","o","t","e">>, <<"D","i","s","p","o","n","iacute","v","e","l"," ","e","m",":"," ","<","h","t","t","p",":","/","/","a",".","c","o","/","x",">","."," ","A","c","e","s","s","o"," ","e","m",":"," ","2","5"," ","m","a","r","."," ","2","0","2","5">>),
      Field(<<" ">>, <<"n","o","t","e">>, <<"D","i","s","p","o","n","iacute","v","e","l"," ","e","m",":"," ","<","h","t","t","p",":","/","/","a",".","c","o","/","x",">","."," ","A","c","e","s","s","o"," ","e","m",":"," ","1","7"," ","d","e"," ","a","b","r","i","l"," ","d","e"," ","2","0","2","5">>),
      Field(<<" ">>, <<"j","o","u","r","n","a","l">>, <<"R","."," ","D","i","s","p","o","n","iacute","v","e","l"," ","e","m",":"," ","h","t","t","p",":","/","/","a",".","c","o","/","x">>),
      Field(<<" ">>, <<"u","r","l">>, <<"h","t","t","p",":","/","/","b",".","c","o","/","y">>) }

TypePool == { <<"a","r","t","i","c","l","e">>, <<"m","i","s","c">>, <<"z","z">> }

\* an entries_map with no record, and one with a record p
MapPool ==
    { <<>>,
      [k \in {<<"p">>} |-> [entry_type |-> <<"b","o","o","k">>,
                          fields |-> <<Field(<<" ">>, <<"t","i","t","l","e">>, <<"P">>), Field(<<" ">>, <<"y","e","a","r">>, <<"1">>)>>,
                          unknown |-> <<>>]] }

InitFields ==
    /\ args \in [entry_type : TypePool, key : {<<"k">>}, fields : SeqsUpTo(FieldPool, MaxFields),
                 entries_map : MapPool]
    /\ result = [stage |-> "none", input |-> <<>>, fields |-> <<>>]
    /\ text = <<>> /\ pc = "fields" /\ run = 1 /\ log = <<>>
    /\ pos = 1 /\ in_entry = FALSE /\ current = <<>> /\ depth = 0
    /\ entries = <<>> /\ start = 0 /\ spans = <<>>
    /\ parsed = <<>> /\ entries_map = <<>> /\ idx = 1 /\ normalized_entries = <<>>
    /\ seen = {} /\ dropped = 0 /\ changed = 0 /\ output_text = <<>>

\* new_fields = normalize_fields(entry_type, key, fields, entries_map)
CallNormalizeFields ==
    /\ pc = "fields"
    /\ result.stage = "none"
    /\ result' = [stage |-> "normalized", input |-> args.fields,
                  fields |-> normalize_fields(args.entry_type, args.key, args.fields,
                                              args.entries_map)]
    /\ UNCHANGED <<text, pc, run, log, args>>
    /\ UNCHANGED splitVars
    /\ UNCHANGED mainVars

\* order_fields(entry_type, fields) on the record itself, and
\* new_fields = order_fields(entry_type, new_fields) on what normalize_fields returned
CallOrderFields ==
    /\ pc = "fields"
    /\ result.stage \in {"none", "normalized"}
    /\ \E input \in {IF result.stage = "none" THEN args.fields ELSE result.fields} :
          result' = [stage |-> IF result.stage = "none" THEN "ordered" ELSE "normalized and ordered",
                     input |-> input, fields |-> order_fields(args.entry_type, input)]
    /\ UNCHANGED <<text, pc, run, log, args>>
    /\ UNCHANGED splitVars
    /\ UNCHANGED mainVars

NextFields == CallNormalizeFields \/ CallOrderFields

SpecFields == InitFields /\ [][NextFields]_vars

(***************************************************************************)
(* SpecText: split_entries on every document of up to MaxLines lines of    *)
(* TextLines, then parse_entry and build_entry on each block.              *)
(***************************************************************************)
MaxLines == 4

TextLines ==
    { <<"@","a","{","k",",">>, <<"@","s","{","x","}">>, <<" ","t"," ","="," ","{","A","}",",">>, <<" ","d"," ","="," ","{","B","}","}">>, <<"}">>, <<>>, <<"%"," ","c">>, <<" ","n"," ","="," ","{","x">> }

MainIdle ==
    /\ parsed = <<>> /\ entries_map = <<>> /\ idx = 1 /\ normalized_entries = <<>>
    /\ seen = {} /\ dropped = 0 /\ changed = 0 /\ output_text = <<>>

InitText ==
    /\ text \in SeqsUpTo(TextLines, MaxLines)
    /\ pc = "split" /\ run = 1 /\ log = <<>> /\ args = <<>> /\ result = <<>>
    /\ SplitInit
    /\ MainIdle

\* parse_entry on the next block and, where it parses, build_entry on what it
\* returned (the fields as parsed, the indent of the first field)
ParseAndBuild ==
    /\ pc = "parse"
    /\ idx <= Len(entries)
    /\ LET p == parse_entry(entries[idx])
           indent_style == IF p.fields # <<>> THEN p.fields[1].indent ELSE <<>>
       IN log' = Append(log, [block |-> entries[idx], parsed |-> p,
                               built |-> IF p.ok
                                         THEN build_entry(p.entry_type, p.key, p.fields, p.unknown, indent_style)
                                         ELSE <<>>])
    /\ idx' = idx + 1
    /\ UNCHANGED <<text, pc, run, args, result>>
    /\ UNCHANGED splitVars
    /\ UNCHANGED <<parsed, entries_map, normalized_entries, seen, dropped, changed, output_text>>

NextText == SplitLine \/ SplitReturn \/ ParseAndBuild

SpecText == InitText /\ [][NextText]_vars

(***************************************************************************)
(* The properties.                                                         *)
(***************************************************************************)
NonEmptyFp(fp) == \E i \in 1..3 : fp[i] # <<>>

\* whether a parsed record handled before the j-th block had its fingerprint
EarlierSameFp(j) ==
    \E i \in 1..(j - 1) : log[i].outcome # "passthrough" /\ log[i].fp = log[j].fp

\* C1: a parsed record is dropped exactly when its fingerprint has a
\* non-empty component and an earlier parsed record of the document had the
\* same fingerprint; `dropped` counts the drops one by one; a record with an
\* all-empty fingerprint is kept; no two emitted records share a non-empty
\* fingerprint.
C1_FirstFingerprintKept ==
    /\ \A j \in 1..Len(log) :
          log[j].outcome # "passthrough" =>
              (log[j].outcome = "dropped" <=> (NonEmptyFp(log[j].fp) /\ EarlierSameFp(j)))
    /\ dropped = Cardinality({j \in 1..Len(log) : log[j].outcome = "dropped"})
    /\ \A i, j \in 1..Len(log) :
          (i < j /\ log[i].outcome = "emitted" /\ log[j].outcome = "emitted"
                 /\ NonEmptyFp(log[i].fp))
              => log[i].fp # log[j].fp

\* C1 happens: a record was dropped as the duplicate of an emitted one, and a
\* record with an all-empty fingerprint was emitted
C1_Witness ==
    /\ \E i, j \in 1..Len(log) :
          i < j /\ log[i].outcome = "emitted" /\ log[j].outcome = "dropped"
                /\ log[i].fp = log[j].fp
    /\ \E k \in 1..Len(log) : log[k].outcome = "emitted" /\ ~NonEmptyFp(log[k].fp)

\* C2: the run on the output of a run reports no modified record and no
\* record dropped as a duplicate.
C2_SecondRunChangesNothing ==
    (run = 2 /\ pc = "done") => (changed = 0 /\ dropped = 0)

HasCrossref(fields) == \E i \in 1..Len(fields) : lower(fields[i].name) = <<"c","r","o","s","s","r","e","f">>

WithoutCrossref(fields) ==
    LET NotCrossref(f) == lower(f.name) # <<"c","r","o","s","s","r","e","f">> IN SelectSeq(fields, NotCrossref)

\* C3: what normalize_fields returns for a record with a crossref field has
\* no crossref field; where the key is in no record of the RecordIndex it is
\* what normalize_fields returns for the record without its crossref field.
C3_CrossrefNeverReturned ==
    (result.stage = "normalized" /\ HasCrossref(args.fields)) =>
        /\ ~HasCrossref(result.fields)
        /\ CrossrefKey(args.fields) \notin DOMAIN args.entries_map =>
               result.fields = normalize_fields(args.entry_type, args.key,
                                                WithoutCrossref(args.fields), args.entries_map)

\* the block of the document that entries_map holds for key k once every
\* block is parsed: the last one parsed with that key
IndexedAt(k) == Max({j \in 1..Len(parsed) : parsed[j].entry_type # <<>> /\ parsed[j].key = k})

\* the first crossref value of a record, stripped
FirstCrossref(fields) ==
    strip(fields[Min({i \in 1..Len(fields) : lower(fields[i].name) = <<"c","r","o","s","s","r","e","f">>})].value)

\* whether the n-th block is a parsed record whose crossref names a parsed record
IsChild(n) ==
    /\ log[n].outcome # "passthrough"
    /\ HasCrossref(parsed[n].fields)
    /\ \E j \in 1..Len(parsed) :
          parsed[j].entry_type # <<>> /\ parsed[j].key = FirstCrossref(parsed[n].fields)

ParentOf(n) == IndexedAt(FirstCrossref(parsed[n].fields))

\* the fields of parent a child with fields child is to inherit
ToInherit(child, parent) ==
    LET Missing(f) == /\ \A i \in 1..Len(child) : lower(child[i].name) # lower(f.name)
                      /\ lower(f.name) \notin {<<"k","e","y">>, <<"c","r","o","s","s","r","e","f">>}
    IN SelectSeq(parent, Missing)

\* C4: the fields of a child whose crossref names a record of the document
\* are, before they are normalized, the child's own fields without crossref,
\* then every field of that record whose name the child does not hold and
\* that is not key or crossref, with the record's value; the record may stand
\* before or after the child.
C4_CrossrefInheritance ==
    \A n \in 1..Len(log) :
        IsChild(n) =>
            log[n].merged = WithoutCrossref(parsed[n].fields)
                            \o ToInherit(parsed[n].fields, parsed[ParentOf(n)].fields)

\* C4 happens: a child inherited a field from a parent that stands after it
\* and holds a name the child holds too
C4_Witness ==
    \E n \in 1..Len(log) :
        /\ IsChild(n)
        /\ ParentOf(n) > n
        /\ ToInherit(parsed[n].fields, parsed[ParentOf(n)].fields) # <<>>
        /\ \E i \in 1..Len(parsed[n].fields) : \E j \in 1..Len(parsed[ParentOf(n)].fields) :
              lower(parsed[n].fields[i].name) = lower(parsed[ParentOf(n)].fields[j].name)

\* whether the first line of a block matches the header pattern
HeaderMatches(block) == ENTRY_START_RE(rstrip(block[1])).ok

MatchingBlocks == {j \in 1..Len(entries) : HeaderMatches(entries[j])}

\* the place in normalized_entries of the n-th block, if it is not dropped
EmitIndex(n) == Cardinality({i \in 1..n : log[i].outcome # "dropped"})

\* C5: a block whose first line does not match the header pattern is emitted
\* as it is at its place among the emitted entries, its key is in no record
\* of the RecordIndex, its fingerprint is not taken, and it is neither
\* dropped nor counted as modified; every other block is normalized, and so
\* emitted or dropped as a duplicate; the run handles every block.
C5_BadHeaderPassthrough ==
    /\ \A n \in 1..Len(log) :
          /\ log[n].src = n
          /\ IF HeaderMatches(entries[n])
             THEN log[n].outcome \in {"emitted", "dropped"}
             ELSE /\ log[n].outcome = "passthrough"
                  /\ normalized_entries[EmitIndex(n)] = entries[n]
    /\ pc \in {"normalize", "done"} =>
          DOMAIN entries_map = {ENTRY_START_RE(rstrip(entries[j][1])).key : j \in MatchingBlocks}
    /\ seen \subseteq {log[n].fp : n \in MatchingBlocks \cap (1..Len(log))}
    /\ changed + dropped <= Cardinality(MatchingBlocks \cap (1..Len(log)))
    /\ pc = "done" => (Len(log) = Len(entries) /\ output_text = JoinEntries(normalized_entries))

\* C5 happens: the run is over, a block with a bad header was passed through
\* and a record after it was normalized and emitted
C5_Witness ==
    /\ pc = "done"
    /\ \E i, j \in 1..Len(log) :
          i < j /\ log[i].outcome = "passthrough" /\ ~HeaderMatches(entries[i])
                /\ log[j].outcome = "emitted" /\ log[j].modified

\* the values of the fields of a name
ValuesOf(fields, name) == {fields[i].value : i \in {j \in 1..Len(fields) : fields[j].name = name}}

\* notes made of an availability marker with a URL and an accessed-on marker
\* with a date, and the URL and the date they hold
CollapsibleNotes ==
    { [note |-> <<"D","i","s","p","o","n","iacute","v","e","l"," ","e","m",":"," ","<","h","t","t","p",":","/","/","a",".","c","o","/","x",">","."," ","A","c","e","s","s","o"," ","e","m",":"," ","2","5"," ","m","a","r","."," ","2","0","2","5">>,
       url |-> <<"h","t","t","p",":","/","/","a",".","c","o","/","x">>, urldate |-> <<"2","0","2","5","-","0","3","-","2","5">>],
      [note |-> <<"D","i","s","p","o","n","iacute","v","e","l"," ","e","m",":"," ","<","h","t","t","p",":","/","/","a",".","c","o","/","x",">","."," ","A","c","e","s","s","o"," ","e","m",":"," ","1","7"," ","d","e"," ","a","b","r","i","l"," ","d","e"," ","2","0","2","5">>,
       url |-> <<"h","t","t","p",":","/","/","a",".","c","o","/","x">>, urldate |-> <<"2","0","2","5","-","0","4","-","1","7">>] }

\* C6: what normalize_fields returns for a record whose one field is such a
\* note has no note field, the URL of the note as its url and the date of the
\* note, as YYYY-MM-DD, as its urldate.
C6_NoteCollapsed ==
    \A n \in CollapsibleNotes :
        (result.stage = "normalized" /\ args.fields = <<Field(<<" ">>, <<"n","o","t","e">>, n.note)>>) =>
            /\ ValuesOf(result.fields, <<"n","o","t","e">>) = {}
            /\ ValuesOf(result.fields, <<"u","r","l">>) = {n.url}
            /\ ValuesOf(result.fields, <<"u","r","l","d","a","t","e">>) = {n.urldate}

\* the running brace depth from line first through line last
RECURSIVE DepthThrough(_, _)
DepthThrough(first, last) ==
    IF last < first THEN 0 ELSE DepthThrough(first, last - 1) + BraceDelta(text[last])

\* the first line from line first on at which the running depth is zero or
\* below; the last line of the document if there is none
ClosingLine(first) ==
    LET closing == {l \in first..Len(text) : DepthThrough(first, l) <= 0}
    IN IF closing = {} THEN Len(text) ELSE Min(closing)

\* the blocks of the document from line `from` on
RECURSIVE BlocksFrom(_)
BlocksFrom(from) ==
    LET starts == {l \in from..Len(text) : IsEntryStart(text[l])}
    IN IF starts = {} THEN <<>>
       ELSE <<[first |-> Min(starts), last |-> ClosingLine(Min(starts))]>>
            \o BlocksFrom(ClosingLine(Min(starts)) + 1)

\* C7: the blocks split_entries returns each begin at a record-start line
\* and end at the first line, the start line counted, at which the running
\* brace depth is zero or below; the next record-start line begins the next
\* block; each block is the text of its lines, trimmed.
C7_BlockEndsAtDepthZero ==
    pc # "split" =>
        /\ Len(entries) = Len(BlocksFrom(1))
        /\ \A k \in 1..Len(BlocksFrom(1)) :
              k <= Len(entries) =>
                  entries[k] = StripBlock(SubSeq(text, BlocksFrom(1)[k].first, BlocksFrom(1)[k].last))

Pair(f) == <<f.name, f.value>>

Count(fields, p) == Cardinality({i \in 1..Len(fields) : Pair(fields[i]) = p})

\* C8: what order_fields returns holds every (name, value) of its input as
\* often as the input does and nothing else; for a type without a priority
\* list it is the input, pair by pair.
C8_OrderKeepsEveryField ==
    result.stage \in {"ordered", "normalized and ordered"} =>
        /\ Len(result.fields) = Len(result.input)
        /\ \A i \in 1..Len(result.input) :
              Count(result.fields, Pair(result.input[i])) = Count(result.input, Pair(result.input[i]))
        /\ order_map(args.entry_type) = <<>> =>
              [i \in 1..Len(result.fields) |-> Pair(result.fields[i])]
                  = [i \in 1..Len(result.input) |-> Pair(result.input[i])]

\* whether a journal, publisher, booktitle or address field of fields holds
\* an availability marker
HasMarkedValue(fields) ==
    \E i \in 1..Len(fields) :
        /\ lower(fields[i].name) \in {<<"j","o","u","r","n","a","l">>, <<"p","u","b","l","i","s","h","e","r">>, <<"b","o","o","k","t","i","t","l","e">>, <<"a","d","d","r","e","s","s">>}
        /\ \E j \in 1..Len(fields[i].value) : DisponivelEnd(fields[i].value, j) # 0

\* C9: a record with one url field and a journal, publisher, booktitle or
\* address value that holds an availability marker leaves normalize_fields,
\* and then order_fields, with one url field, of the record's own value.
C9_ExistingUrlKept ==
    (/\ result.stage \in {"normalized", "normalized and ordered"}
     /\ HasMarkedValue(args.fields)
     /\ \E i \in 1..Len(args.fields) : Pair(args.fields[i]) = <<<<"u","r","l">>, <<"h","t","t","p",":","/","/","b",".","c","o","/","y">>>>)
        => /\ Cardinality({i \in 1..Len(result.fields) : result.fields[i].name = <<"u","r","l">>}) = 1
           /\ ValuesOf(result.fields, <<"u","r","l">>) = {<<"h","t","t","p",":","/","/","b",".","c","o","/","y">>}

\* the lines of a block after its header, without a last line that holds
\* only the closing brace
ContentLines(block) ==
    IF Len(block) > 1 /\ strip(block[Len(block)]) = <<"}">>
    THEN SubSeq(block, 2, Len(block) - 1)
    ELSE Tail(block)

\* C10: of a block whose header matches, every line after the header other
\* than a last line of only the closing brace is one field, if it matches
\* the field pattern, or one passthrough line; the fields are in the order
\* of their lines; the rebuilt text holds the header, a line for each field,
\* each passthrough line and the closing brace.
C10_NoBodyLineLost ==
    \A n \in 1..Len(log) :
        log[n].parsed.ok =>
            /\ log[n].parsed.fields = ParseFields(ContentLines(log[n].block))
            /\ log[n].parsed.unknown = ParseUnknown(ContentLines(log[n].block))
            /\ Len(log[n].built) = Len(ContentLines(log[n].block)) + 2

\* the records of the second loop that left an entry in the output, in order
KeptLog == SelectSeq(log, LAMBDA r : r.outcome # "dropped")

\* the first line build_entry writes for the parsed record n
HeaderOf(n) == <<"@">> \o parsed[n].entry_type \o <<"{">> \o parsed[n].key \o <<",">>

\* the emitted records whose ordered field list differs from the parsed one
ModifiedLog ==
    {n \in 1..Len(log) : log[n].outcome = "emitted" /\ log[n].new_fields # parsed[log[n].src].fields}

\* C11: while main goes through the blocks, the blocks handled so far are the
\* entries emitted plus the duplicates dropped, and at the end of the run the
\* blocks processed are the entries emitted plus the dropped counter; the
\* modified counter is the number of emitted parsed records whose fields
\* changed, so modified + dropped is at most the blocks processed; the
\* emitted entries stand in the order of their source blocks, a passed
\* through entry being its block and a rebuilt entry bearing its record's
\* header.
C11_Conservation ==
    pc \in {"normalize", "done"} =>
        LET Holds(kept) ==
                /\ Len(log) = idx - 1
                /\ Len(log) = Len(normalized_entries) + dropped
                /\ pc = "done" => Len(entries) = Len(normalized_entries) + dropped
                /\ dropped = Cardinality({n \in 1..Len(log) : log[n].outcome = "dropped"})
                /\ changed = Cardinality(ModifiedLog)
                /\ changed <= Cardinality({n \in 1..Len(log) : log[n].outcome = "emitted"})
                /\ changed + dropped <= Len(entries)
                /\ Len(kept) = Len(normalized_entries)
                /\ \A j \in 1..Len(kept) :
                      /\ normalized_entries[j] = kept[j].emitted
                      /\ kept[j].outcome = "passthrough" => normalized_entries[j] = entries[kept[j].src]
                      /\ kept[j].outcome = "emitted" => normalized_entries[j][1] = HeaderOf(kept[j].src)
                /\ \A i, j \in 1..Len(kept) : i < j => kept[i].src < kept[j].src
        IN Holds(KeptLog)

\* C11 happens: a run is over in which one block was passed through, one
\* record was dropped as a duplicate, one was emitted modified, and a passed
\* through block stands before a rebuilt record in the output.
C11_Witness ==
    /\ pc = "done"
    /\ dropped >= 1
    /\ changed >= 1
    /\ \E i, j \in 1..Len(log) :
          /\ i < j
          /\ log[i].outcome = "passthrough"
          /\ log[j].outcome = "emitted"

====
